---- MODULE Spec2Model ----
(***************************************************************************)
(* Trade lifecycle controller (core/trade_manager.py), capital ledger and  *)
(* position sizer (core/risk_manager.py) and breakout signal source        *)
(* (strategies/no_rsi_breakout.py) of the 15-minute breakout bot.          *)
(*                                                                         *)
(* Prices and capital are integers (rupees); Python's float arithmetic is  *)
(* modelled by exact rational arithmetic: daily_r_pnl is a reduced         *)
(* fraction [n, d].  Timestamps are reduced to the time of day in minutes. *)
(* Every handler is an operator from a state record to a state record, so  *)
(* that a handler that calls other handlers is one action.                 *)
(***************************************************************************)
EXTENDS Integers, Sequences, FiniteSets, TLC

VARIABLES
    active_trade,             \* TradeManager.active_trade: <<>> (None) or <<trade>>
    trailing_sl_activated,    \* TradeManager.trailing_sl_activated
    daily_r_pnl,              \* TradeManager.daily_r_pnl, a fraction [n, d]
    trading_stopped_for_day,  \* TradeManager.trading_stopped_for_day
    current_capital,          \* RiskManager.current_capital
    trailing_equity_high,     \* RiskManager.trailing_equity_high
    first_candle_high,        \* NoRsiBreakoutStrategy.first_candle_high: <<>> or <<h>>
    trade_active,             \* NoRsiBreakoutStrategy.trade_active
    position,                 \* execution venue: acknowledged buys minus sells
    next_order_id,            \* execution venue: number of acknowledged orders
    call,                     \* the handler invoked last, with its arguments
    orders,                   \* orders submitted to the venue by the last call
    log,                      \* CsvLogger rows written by the last call
    msgs,                     \* logging / telegram lines emitted by the last call
    now,                      \* main.py: now of the main loop, minutes of the day; <<>> before
    last_processed_minute,    \* main.py: last_processed_minute of the main loop
    running,                  \* main.py: the main loop has not been left
    last_day,                 \* backtest.py: last_day of the backtesting loop: <<>> or <<d>>
    current_interval_ticks,   \* main.py: the global list of ticks
    df,                       \* main.py: the ticks a candle is being built from: <<>> or <<ticks>>
    candle_ticks,             \* ticks that went into the candles built so far
    ticks_received,           \* number of ticks the listener has appended
    exits_today               \* reasons of the exits booked since the last day_reset

vars == <<active_trade, trailing_sl_activated, daily_r_pnl, trading_stopped_for_day,
          current_capital, trailing_equity_high, first_candle_high, trade_active,
          position, next_order_id, call, orders, log, msgs,
          now, last_processed_minute, running, last_day,
          current_interval_ticks, df, candle_ticks, ticks_received,
          exits_today>>

----------------------------------------------------------------------------
(* config.py *)

RISK_PER_TRADE_PERCENT == 2
MAX_CAPITAL_ALLOCATION_PERCENT == 50
TARGET_RISK_REWARD_RATIO == 5
NIFTY_LOT_SIZE == 50
\* -2.5 as the fraction -5/2
MAX_DAILY_DRAWDOWN_R == [n |-> -5, d |-> 2]

----------------------------------------------------------------------------
(* Bounds of the model *)

\* The venue acknowledges at most MaxOrders orders; later orders are rejected.
MaxOrders == 3
\* Price levels of bars.
Prices == {21950, 22000, 22050, 22100, 22300}
\* Opening prices of the bar passed to handle_gap_down: the price levels and a
\* deeper gap.
GapOpenPrices == Prices \cup {21850}
\* Entry and stop prices of the signals passed to enter_trade directly; they
\* include signals with entry_price <= sl_price.
SignalEntryPrices == {22000, 22050, 22100}
SignalStopPrices == {21950, 22000, 22050}
\* Capital reported by the venue at start-up (main.py) / set by backtest.py,
\* and the capital of the example in risk_manager.py, too small for one lot.
InitialCapitals == {100000, 4000000}
\* Times of day in minutes after midnight: time(9, 15) and time(9, 30).
T0915 == 555
T0930 == 570
\* dt_time(9, 0), the start of the reset window of the main loop
T0900 == 540
\* Times of day of a bar: 09:00, 09:15, 09:30, 09:45.
TimesOfDay == {T0915 - 15, T0915, T0930, T0930 + 15}
\* Bars shown to the signal source when the controller is driven call by call:
\* bars that open at their low and close at their high.
EntryBarHighs == {22000, 22050}
EntryBarLows == {21950, 22000}
\* The main loop and the backtesting loop: the venue acknowledges at most
\* MaxLoopOrders orders.
MaxLoopOrders == 6
\* Instants at which the main loop is observed, in their order within a day:
\* the bar boundaries from 09:00 to 10:30 and 09:01, an instant of the reset
\* window that is no boundary.
LoopInstants == <<T0900, T0900 + 1, T0915, T0930, T0930 + 15, T0930 + 30,
                  T0930 + 45, T0930 + 60>>
\* Bars built from the ticks of an interval: they open at their low and close
\* at their high.
LoopBarLows == {21950, 22000}
LoopBarHighs == {22000, 22050}
\* The bars of the historical data: their times of day, 09:15 to 10:00, and
\* their dates, of which only consecutive ones need to be told apart.
BacktestTimes == {T0915, T0930, T0930 + 15, T0930 + 30}
BacktestDays == {"even", "odd"}
\* A trading day of the controller with deep gaps: signals, bars and opening
\* prices, down to a price of 0.
DaySignalEntryPrices == {22050}
DaySignalStopPrices == {21950, 22000}
DayBarLows == {21950, 22000, 22100}
DayBarHighs == {22100, 22300}
DayOpenPrices == {0, 21950}
\* The listener receives at most MaxTicks ticks of the instrument.
MaxTicks == 5
\* What may raise while a bar is processed, besides order placement.
Faults == {"none", "bar_construction", "signal_source"}
\* Bars shown to the signal source when it is driven on its own.
StrategyBarLows == {21950, 22000}
StrategyBarCloses == {22000, 22050, 22100}
StrategyBarHighs == {22050, 22150}
\* The capital ledger and the position sizer driven on their own: capital
\* figures, entry and stop prices, and values of config.NIFTY_LOT_SIZE.
LedgerCapitals == {0, 95000, 100000, 102000, 105000, 4000000}
SizingEntryPrices == {100, 22050, 22150}
SizingStopPrices == {90, 22000, 22100, 22150}
LotSizes == {-50, 0, 1, 50}

----------------------------------------------------------------------------
(* Optional values and exact rational arithmetic *)

None == <<>>
Some(x) == <<x>>

Abs(x) == IF x < 0 THEN -x ELSE x

RECURSIVE GCD(_, _)
GCD(a, b) == IF b = 0 THEN a ELSE GCD(b, a % b)

\* the fraction num/den (den # 0) in lowest terms with a positive denominator
Frac(num, den) ==
    LET g == GCD(Abs(num), Abs(den))
        sgn == IF den < 0 THEN -1 ELSE 1
    IN [n |-> sgn * (num \div g), d |-> sgn * (den \div g)]

RZero == [n |-> 0, d |-> 1]
RAdd(x, y) == Frac(x.n * y.d + y.n * x.d, x.d * y.d)
RLeq(x, y) == x.n * y.d <= y.n * x.d
RLt(x, y) == x.n * y.d < y.n * x.d

Min(a, b) == IF a <= b THEN a ELSE b
Max(a, b) == IF a >= b THEN a ELSE b

----------------------------------------------------------------------------
(* The state as one record, so that handlers compose *)

St == [active_trade |-> active_trade,
       trailing_sl_activated |-> trailing_sl_activated,
       daily_r_pnl |-> daily_r_pnl,
       trading_stopped_for_day |-> trading_stopped_for_day,
       current_capital |-> current_capital,
       trailing_equity_high |-> trailing_equity_high,
       first_candle_high |-> first_candle_high,
       trade_active |-> trade_active,
       position |-> position,
       next_order_id |-> next_order_id,
       call |-> call,
       orders |-> orders,
       log |-> log,
       msgs |-> msgs,
       now |-> now,
       last_processed_minute |-> last_processed_minute,
       running |-> running,
       last_day |-> last_day,
       current_interval_ticks |-> current_interval_ticks,
       df |-> df,
       candle_ticks |-> candle_ticks,
       ticks_received |-> ticks_received,
       exits_today |-> exits_today]

Commit(s) ==
    /\ active_trade' = s.active_trade
    /\ trailing_sl_activated' = s.trailing_sl_activated
    /\ daily_r_pnl' = s.daily_r_pnl
    /\ trading_stopped_for_day' = s.trading_stopped_for_day
    /\ current_capital' = s.current_capital
    /\ trailing_equity_high' = s.trailing_equity_high
    /\ first_candle_high' = s.first_candle_high
    /\ trade_active' = s.trade_active
    /\ position' = s.position
    /\ next_order_id' = s.next_order_id
    /\ call' = s.call
    /\ orders' = s.orders
    /\ log' = s.log
    /\ msgs' = s.msgs
    /\ now' = s.now
    /\ last_processed_minute' = s.last_processed_minute
    /\ running' = s.running
    /\ last_day' = s.last_day
    /\ current_interval_ticks' = s.current_interval_ticks
    /\ df' = s.df
    /\ candle_ticks' = s.candle_ticks
    /\ ticks_received' = s.ticks_received
    /\ exits_today' = s.exits_today

\* A handler is entered: the record of the previous call is dropped.
Begin(s, c) == [s EXCEPT !.call = c, !.orders = <<>>, !.log = <<>>, !.msgs = <<>>]

\* A logging / telegram line; the text is cut to its fixed part.
Say(s, m) == [s EXCEPT !.msgs = Append(@, [m |-> m])]

----------------------------------------------------------------------------
(* RiskManager (core/risk_manager.py) *)

\* mutant: trailing_equity_high follows current_capital down
update_capital_follows_current(s, new_capital) ==
    [s EXCEPT !.current_capital = new_capital, !.trailing_equity_high = new_capital]

update_capital(s, new_capital) ==
    LET s1 == [s EXCEPT !.current_capital = new_capital]
    IN IF s1.current_capital > s1.trailing_equity_high
       THEN [s1 EXCEPT !.trailing_equity_high = s1.current_capital]
       ELSE s1

\* floor(min(qty_by_risk, qty_by_capital) / lot_size) * lot_size, computed on
\* exact rationals: floor(min(a, b) / l) = min(floor(a / l), floor(b / l)).
\* mutant: the quantity is truncated to an integer, not floored to the lot size
quantity_for_lot_size_unfloored(s, entry_price, sl_price, lot_size) ==
    IF entry_price <= sl_price THEN 0
    ELSE LET capital_for_risk == s.trailing_equity_high
             sl_distance_per_share == entry_price - sl_price
             quantity_by_risk == (capital_for_risk * RISK_PER_TRADE_PERCENT)
                                     \div (100 * sl_distance_per_share)
             quantity_by_capital == (s.current_capital * MAX_CAPITAL_ALLOCATION_PERCENT)
                                        \div (100 * entry_price)
         IN IF sl_distance_per_share <= 0 THEN 0
            ELSE IF lot_size > 0 THEN Min(quantity_by_risk, quantity_by_capital)
            ELSE 0

\* mutant: the risk amount is taken from current_capital
quantity_for_lot_size_risk_from_current(s, entry_price, sl_price, lot_size) ==
    IF entry_price <= sl_price THEN 0
    ELSE LET capital_for_risk == s.current_capital
             sl_distance_per_share == entry_price - sl_price
             lots_by_risk == (capital_for_risk * RISK_PER_TRADE_PERCENT)
                                 \div (100 * sl_distance_per_share * lot_size)
             lots_by_capital == (s.current_capital * MAX_CAPITAL_ALLOCATION_PERCENT)
                                    \div (100 * entry_price * lot_size)
         IN IF sl_distance_per_share <= 0 THEN 0
            ELSE IF lot_size > 0 THEN Min(lots_by_risk, lots_by_capital) * lot_size
            ELSE 0

\* mutant: the quantity is not capped by the capital allocation
quantity_for_lot_size_no_allocation_cap(s, entry_price, sl_price, lot_size) ==
    IF entry_price <= sl_price THEN 0
    ELSE LET capital_for_risk == s.trailing_equity_high
             sl_distance_per_share == entry_price - sl_price
             lots_by_risk == (capital_for_risk * RISK_PER_TRADE_PERCENT)
                                 \div (100 * sl_distance_per_share * lot_size)
         IN IF sl_distance_per_share <= 0 THEN 0
            ELSE IF lot_size > 0 THEN lots_by_risk * lot_size
            ELSE 0

\* The body of calculate_quantity for a given value of config.NIFTY_LOT_SIZE.
quantity_for_lot_size(s, entry_price, sl_price, lot_size) ==
    IF entry_price <= sl_price THEN 0
    ELSE LET capital_for_risk == s.trailing_equity_high
             sl_distance_per_share == entry_price - sl_price
             \* quantity_by_risk / lot_size, floored
             lots_by_risk == (capital_for_risk * RISK_PER_TRADE_PERCENT)
                                 \div (100 * sl_distance_per_share * lot_size)
             \* quantity_by_capital / lot_size, floored
             lots_by_capital == (s.current_capital * MAX_CAPITAL_ALLOCATION_PERCENT)
                                    \div (100 * entry_price * lot_size)
         IN IF sl_distance_per_share <= 0 THEN 0
            ELSE IF lot_size > 0 THEN Min(lots_by_risk, lots_by_capital) * lot_size
            ELSE 0

calculate_quantity(s, entry_price, sl_price) ==
    quantity_for_lot_size(s, entry_price, sl_price, NIFTY_LOT_SIZE)

----------------------------------------------------------------------------
(* NoRsiBreakoutStrategy (strategies/no_rsi_breakout.py) *)

strategy_day_reset(s) == [s EXCEPT !.first_candle_high = None]

on_trade_exit(s) == [s EXCEPT !.trade_active = FALSE]

\* mutant: a signal is emitted although a trade is marked active
process_candle_no_handshake(s, candle) ==
    IF candle.time < T0915
    THEN [s |-> strategy_day_reset(s), signal |-> None]
    ELSE IF s.first_candle_high = None
    THEN IF candle.time = T0930
         THEN [s |-> [s EXCEPT !.first_candle_high = Some(candle.high)], signal |-> None]
         ELSE [s |-> s, signal |-> None]
    ELSE IF candle.close > s.first_candle_high[1]
    THEN [s |-> [s EXCEPT !.trade_active = TRUE],
          signal |-> Some([entry_price |-> candle.close, sl_price |-> candle.low])]
    ELSE [s |-> s, signal |-> None]

\* mutant: a close equal to the first candle's high is a breakout
process_candle_not_strict(s, candle) ==
    IF candle.time < T0915
    THEN [s |-> strategy_day_reset(s), signal |-> None]
    ELSE IF s.first_candle_high = None
    THEN IF candle.time = T0930
         THEN [s |-> [s EXCEPT !.first_candle_high = Some(candle.high)], signal |-> None]
         ELSE [s |-> s, signal |-> None]
    ELSE IF ~s.trade_active /\ candle.close >= s.first_candle_high[1]
    THEN [s |-> [s EXCEPT !.trade_active = TRUE],
          signal |-> Some([entry_price |-> candle.close, sl_price |-> candle.low])]
    ELSE [s |-> s, signal |-> None]

\* Returns the new state and the signal (None or Some(signal)).
process_candle(s, candle) ==
    IF candle.time < T0915
    THEN [s |-> strategy_day_reset(s), signal |-> None]
    ELSE IF s.first_candle_high = None
    THEN IF candle.time = T0930
         THEN [s |-> [s EXCEPT !.first_candle_high = Some(candle.high)], signal |-> None]
         ELSE [s |-> s, signal |-> None]
    ELSE IF ~s.trade_active /\ candle.close > s.first_candle_high[1]
    THEN [s |-> [s EXCEPT !.trade_active = TRUE],
          signal |-> Some([entry_price |-> candle.close, sl_price |-> candle.low])]
    ELSE [s |-> s, signal |-> None]

----------------------------------------------------------------------------
(* Execution venue (connectors/zerodha_connector.py, ZerodhaConnector.place_order) *)

\* ack = TRUE: the order is acknowledged and an order id returned;
\* ack = FALSE: place_order raises.
place_order(s, transaction_type, quantity, ack) ==
    LET o == [transaction_type |-> transaction_type, quantity |-> quantity, ack |-> ack]
        s1 == [s EXCEPT !.orders = Append(@, o)]
    IN IF ack
       THEN [s1 EXCEPT !.next_order_id = @ + 1,
                       !.position = IF transaction_type = "BUY" THEN @ + quantity
                                    ELSE @ - quantity]
       ELSE s1

\* What the venue may answer: it rejects every order once MaxOrders are acknowledged.
Acks(s) == IF s.next_order_id < MaxOrders THEN BOOLEAN ELSE {FALSE}

----------------------------------------------------------------------------
(* TradeManager (core/trade_manager.py) *)

\* mutant: the first reset after a stopped day clears daily_r_pnl only, the
\* next one clears the flag
day_reset_in_two_steps(s) ==
    [s EXCEPT !.active_trade = None,
              !.trailing_sl_activated = FALSE,
              !.daily_r_pnl = RZero,
              !.trading_stopped_for_day =
                  s.trading_stopped_for_day /\ s.daily_r_pnl # RZero]

\* mutant: the reset also forgets the high-water mark of the capital
day_reset_resets_capital(s) ==
    [s EXCEPT !.active_trade = None,
              !.trailing_sl_activated = FALSE,
              !.daily_r_pnl = RZero,
              !.trading_stopped_for_day = FALSE,
              !.trailing_equity_high = s.current_capital]

day_reset(s) ==
    [s EXCEPT !.active_trade = None,
              !.trailing_sl_activated = FALSE,
              !.daily_r_pnl = RZero,
              !.trading_stopped_for_day = FALSE]

\* mutant: the strategy is not reset when the buy order fails
open_trade_no_reset_on_failure(s, signal, ack) ==
    LET entry_price == signal.entry_price
        sl_price == signal.sl_price
        quantity == calculate_quantity(s, entry_price, sl_price)
    IN IF quantity = 0
       THEN on_trade_exit(Say(s, "Calculated quantity is 0. Skipping trade."))
       ELSE
       LET s1 == place_order(s, "BUY", quantity, ack)
       IN IF ~ack
          THEN Say(s1, "ALERT: Failed to place entry order")
          ELSE
          LET initial_risk_per_share == entry_price - sl_price
              target_price == entry_price
                                + initial_risk_per_share * TARGET_RISK_REWARD_RATIO
              trade == [order_id |-> s.next_order_id,
                        entry_price |-> entry_price,
                        initial_sl |-> sl_price,
                        current_sl |-> sl_price,
                        target_price |-> target_price,
                        quantity |-> quantity,
                        initial_risk_per_share |-> initial_risk_per_share]
              s2 == [s1 EXCEPT !.active_trade = Some(trade),
                               !.trailing_sl_activated = FALSE]
              s3 == Say(s2, "--- NEW TRADE INITIATED ---")
          IN [s3 EXCEPT !.log = Append(@, [action |-> "ENTER", price |-> entry_price,
                                           quantity |-> quantity, sl |-> sl_price,
                                           target |-> target_price])]

\* mutant: the strategy is not reset when the calculated quantity is 0
open_trade_no_reset_on_zero(s, signal, ack) ==
    LET entry_price == signal.entry_price
        sl_price == signal.sl_price
        quantity == calculate_quantity(s, entry_price, sl_price)
    IN IF quantity = 0
       THEN Say(s, "Calculated quantity is 0. Skipping trade.")
       ELSE
       LET s1 == place_order(s, "BUY", quantity, ack)
       IN IF ~ack
          THEN on_trade_exit(Say(s1, "ALERT: Failed to place entry order"))
          ELSE
          LET initial_risk_per_share == entry_price - sl_price
              target_price == entry_price
                                + initial_risk_per_share * TARGET_RISK_REWARD_RATIO
              trade == [order_id |-> s.next_order_id,
                        entry_price |-> entry_price,
                        initial_sl |-> sl_price,
                        current_sl |-> sl_price,
                        target_price |-> target_price,
                        quantity |-> quantity,
                        initial_risk_per_share |-> initial_risk_per_share]
              s2 == [s1 EXCEPT !.active_trade = Some(trade),
                               !.trailing_sl_activated = FALSE]
              s3 == Say(s2, "--- NEW TRADE INITIATED ---")
          IN [s3 EXCEPT !.log = Append(@, [action |-> "ENTER", price |-> entry_price,
                                           quantity |-> quantity, sl |-> sl_price,
                                           target |-> target_price])]

\* mutant: the target is measured from the stop instead of the entry price
open_trade_target_from_stop(s, signal, ack) ==
    LET entry_price == signal.entry_price
        sl_price == signal.sl_price
        quantity == calculate_quantity(s, entry_price, sl_price)
    IN IF quantity = 0
       THEN on_trade_exit(Say(s, "Calculated quantity is 0. Skipping trade."))
       ELSE
       LET s1 == place_order(s, "BUY", quantity, ack)
       IN IF ~ack
          THEN on_trade_exit(Say(s1, "ALERT: Failed to place entry order"))
          ELSE
          LET initial_risk_per_share == entry_price - sl_price
              target_price == sl_price
                                + initial_risk_per_share * TARGET_RISK_REWARD_RATIO
              trade == [order_id |-> s.next_order_id,
                        entry_price |-> entry_price,
                        initial_sl |-> sl_price,
                        current_sl |-> sl_price,
                        target_price |-> target_price,
                        quantity |-> quantity,
                        initial_risk_per_share |-> initial_risk_per_share]
              s2 == [s1 EXCEPT !.active_trade = Some(trade),
                               !.trailing_sl_activated = FALSE]
              s3 == Say(s2, "--- NEW TRADE INITIATED ---")
          IN [s3 EXCEPT !.log = Append(@, [action |-> "ENTER", price |-> entry_price,
                                           quantity |-> quantity, sl |-> sl_price,
                                           target |-> target_price])]

\* enter_trade once both guards have passed: sizing, buy order, new position
open_trade(s, signal, ack) ==
    LET entry_price == signal.entry_price
        sl_price == signal.sl_price
        quantity == calculate_quantity(s, entry_price, sl_price)
    IN IF quantity = 0
       THEN on_trade_exit(Say(s, "Calculated quantity is 0. Skipping trade."))
       ELSE
       LET s1 == place_order(s, "BUY", quantity, ack)
       IN IF ~ack
          THEN on_trade_exit(Say(s1, "ALERT: Failed to place entry order"))
          ELSE
          LET initial_risk_per_share == entry_price - sl_price
              target_price == entry_price
                                + initial_risk_per_share * TARGET_RISK_REWARD_RATIO
              trade == [order_id |-> s.next_order_id,
                        entry_price |-> entry_price,
                        initial_sl |-> sl_price,
                        current_sl |-> sl_price,
                        target_price |-> target_price,
                        quantity |-> quantity,
                        initial_risk_per_share |-> initial_risk_per_share]
              s2 == [s1 EXCEPT !.active_trade = Some(trade),
                               !.trailing_sl_activated = FALSE]
              s3 == Say(s2, "--- NEW TRADE INITIATED ---")
          IN [s3 EXCEPT !.log = Append(@, [action |-> "ENTER", price |-> entry_price,
                                           quantity |-> quantity, sl |-> sl_price,
                                           target |-> target_price])]

\* mutant: the check for an active trade is missing
enter_trade_no_active_check(s, signal, ack) ==
    IF s.trading_stopped_for_day
    THEN Say(s, "Cannot enter new trade, daily loss limit reached.")
    ELSE open_trade(s, signal, ack)

\* mutant: the check of the daily loss limit is missing
enter_trade_no_halt_check(s, signal, ack) ==
    IF s.active_trade # None
    THEN Say(s, "Cannot enter a new trade, another is active.")
    ELSE open_trade(s, signal, ack)

enter_trade(s, signal, ack) ==
    IF s.active_trade # None
    THEN Say(s, "Cannot enter a new trade, another is active.")
    ELSE IF s.trading_stopped_for_day
    THEN Say(s, "Cannot enter new trade, daily loss limit reached.")
    ELSE open_trade(s, signal, ack)

\* mutant: the exit that stops trading for the day returns before the reset
close_trade_halt_keeps_trade(s, exit_price, reason) ==
    LET t == s.active_trade[1]
        pnl == (exit_price - t.entry_price) * t.quantity
        r_pnl == Frac(pnl, t.initial_risk_per_share * t.quantity)
        s2 == [s EXCEPT !.daily_r_pnl = RAdd(@, r_pnl)]
        s3 == Say(s2, "--- TRADE EXITED ---")
        s4 == [s3 EXCEPT !.log = Append(@, [action |-> "EXIT", price |-> exit_price,
                                            quantity |-> t.quantity, pnl |-> pnl,
                                            reason |-> reason, risk_r |-> r_pnl])]
        s5 == update_capital(s4, s4.current_capital + pnl)
    IN IF RLeq(s5.daily_r_pnl, MAX_DAILY_DRAWDOWN_R)
       THEN Say([s5 EXCEPT !.trading_stopped_for_day = TRUE],
                "--- TRADING STOPPED ---")
       ELSE on_trade_exit([s5 EXCEPT !.active_trade = None,
                                     !.trailing_sl_activated = FALSE])

\* mutant: the realized pnl is not booked to the capital ledger
close_trade_capital_not_updated(s, exit_price, reason) ==
    LET t == s.active_trade[1]
        pnl == (exit_price - t.entry_price) * t.quantity
        r_pnl == Frac(pnl, t.initial_risk_per_share * t.quantity)
        s2 == [s EXCEPT !.daily_r_pnl = RAdd(@, r_pnl)]
        s3 == Say(s2, "--- TRADE EXITED ---")
        s4 == [s3 EXCEPT !.log = Append(@, [action |-> "EXIT", price |-> exit_price,
                                            quantity |-> t.quantity, pnl |-> pnl,
                                            reason |-> reason, risk_r |-> r_pnl])]
        s6 == IF RLeq(s4.daily_r_pnl, MAX_DAILY_DRAWDOWN_R)
              THEN Say([s4 EXCEPT !.trading_stopped_for_day = TRUE],
                       "--- TRADING STOPPED ---")
              ELSE s4
    IN on_trade_exit([s6 EXCEPT !.active_trade = None,
                                !.trailing_sl_activated = FALSE])

\* exit_trade once the sell order is acknowledged: accounting and reset
\* mutant: the exit leaves the trailing-stop flag as it is
close_trade_keeps_trailing_flag(s, exit_price, reason) ==
    LET t == s.active_trade[1]
        pnl == (exit_price - t.entry_price) * t.quantity
        r_pnl == Frac(pnl, t.initial_risk_per_share * t.quantity)
        s2 == [s EXCEPT !.daily_r_pnl = RAdd(@, r_pnl)]
        s3 == Say(s2, "--- TRADE EXITED ---")
        s4 == [s3 EXCEPT !.log = Append(@, [action |-> "EXIT", price |-> exit_price,
                                            quantity |-> t.quantity, pnl |-> pnl,
                                            reason |-> reason, risk_r |-> r_pnl])]
        s5 == update_capital(s4, s4.current_capital + pnl)
        s6 == IF RLeq(s5.daily_r_pnl, MAX_DAILY_DRAWDOWN_R)
              THEN Say([s5 EXCEPT !.trading_stopped_for_day = TRUE],
                       "--- TRADING STOPPED ---")
              ELSE s5
    IN on_trade_exit([s6 EXCEPT !.active_trade = None])

close_trade(s, exit_price, reason) ==
    LET t == s.active_trade[1]
        pnl == (exit_price - t.entry_price) * t.quantity
        r_pnl == Frac(pnl, t.initial_risk_per_share * t.quantity)
        s2 == [s EXCEPT !.daily_r_pnl = RAdd(@, r_pnl)]
        s3 == Say(s2, "--- TRADE EXITED ---")
        s4 == [s3 EXCEPT !.log = Append(@, [action |-> "EXIT", price |-> exit_price,
                                            quantity |-> t.quantity, pnl |-> pnl,
                                            reason |-> reason, risk_r |-> r_pnl])]
        s5 == update_capital(s4, s4.current_capital + pnl)
        s6 == IF RLeq(s5.daily_r_pnl, MAX_DAILY_DRAWDOWN_R)
              THEN Say([s5 EXCEPT !.trading_stopped_for_day = TRUE],
                       "--- TRADING STOPPED ---")
              ELSE s5
    IN on_trade_exit([s6 EXCEPT !.active_trade = None,
                                !.trailing_sl_activated = FALSE])

\* the sell order of exit_trade
place_exit_order(s, exit_price, reason, ack) ==
    place_order([s EXCEPT !.msgs = Append(@, [m |-> "Placing live exit order",
                                              reason |-> reason,
                                              exit_price |-> exit_price])],
                "SELL", s.active_trade[1].quantity, ack)

\* mutant: the state is reset although the sell order failed
exit_trade_reset_on_failure(s, exit_price, reason, ack) ==
    IF s.active_trade = None THEN s
    ELSE
    LET s1 == place_exit_order(s, exit_price, reason, ack)
    IN IF ~ack
       THEN on_trade_exit([Say(s1, "CRITICAL ALERT: FAILED TO EXIT TRADE!")
                              EXCEPT !.active_trade = None,
                                     !.trailing_sl_activated = FALSE])
       ELSE close_trade(s1, exit_price, reason)

exit_trade(s, exit_price, reason, ack) ==
    IF s.active_trade = None THEN s
    ELSE
    LET s1 == place_exit_order(s, exit_price, reason, ack)
    IN IF ~ack
       THEN Say(s1, "CRITICAL ALERT: FAILED TO EXIT TRADE!")
       ELSE close_trade(s1, exit_price, reason)

\* steps 2 and 3 of check_and_manage_trade: arm the trailing stop, trail it
arm_and_trail(s, low_price, high_price) ==
    LET s1 == IF ~s.trailing_sl_activated
                 /\ high_price >= s.active_trade[1].target_price
              THEN Say([s EXCEPT !.trailing_sl_activated = TRUE],
                       "--- 5R TARGET HIT ---")
              ELSE s
    IN IF s1.trailing_sl_activated
       THEN LET new_sl == low_price
            IN IF new_sl > s1.active_trade[1].current_sl
               THEN LET s2 == [s1 EXCEPT !.active_trade[1].current_sl = new_sl]
                        s3 == Say(s2, "--- TSL UPDATED ---")
                    IN [s3 EXCEPT !.log = Append(@, [action |-> "TSL_UPDATE",
                                                     price |-> new_sl])]
               ELSE s1
       ELSE s1

\* mutant: no return after the stop-loss exit
check_and_manage_trade_no_return(s, current_candle, ack) ==
    IF s.active_trade = None THEN s
    ELSE
    LET low_price == current_candle.low
        high_price == current_candle.high
        s1 == IF low_price <= s.active_trade[1].current_sl
              THEN exit_trade(s, s.active_trade[1].current_sl, "SL_HIT", ack)
              ELSE s
    IN IF s1.active_trade = None THEN s1
       ELSE arm_and_trail(s1, low_price, high_price)

\* mutant: the target is looked at before the stop
check_and_manage_trade_target_first(s, current_candle, ack) ==
    IF s.active_trade = None THEN s
    ELSE
    LET low_price == current_candle.low
        high_price == current_candle.high
    IN IF ~s.trailing_sl_activated /\ high_price >= s.active_trade[1].target_price
       THEN arm_and_trail(s, low_price, high_price)
       ELSE IF low_price <= s.active_trade[1].current_sl
       THEN exit_trade(s, s.active_trade[1].current_sl, "SL_HIT", ack)
       ELSE arm_and_trail(s, low_price, high_price)

\* mutant: the position is closed when the target is reached
check_and_manage_trade_exit_at_target(s, current_candle, ack) ==
    IF s.active_trade = None THEN s
    ELSE
    LET low_price == current_candle.low
        high_price == current_candle.high
    IN IF low_price <= s.active_trade[1].current_sl
       THEN exit_trade(s, s.active_trade[1].current_sl, "SL_HIT", ack)
       ELSE IF high_price >= s.active_trade[1].target_price
       THEN exit_trade(s, s.active_trade[1].target_price, "TARGET_HIT", ack)
       ELSE s

\* mutant: elif, the bar that arms the trailing stop does not trail it
check_and_manage_trade_elif(s, current_candle, ack) ==
    IF s.active_trade = None THEN s
    ELSE
    LET low_price == current_candle.low
        high_price == current_candle.high
    IN IF low_price <= s.active_trade[1].current_sl
       THEN exit_trade(s, s.active_trade[1].current_sl, "SL_HIT", ack)
       ELSE IF ~s.trailing_sl_activated
       THEN IF high_price >= s.active_trade[1].target_price
            THEN Say([s EXCEPT !.trailing_sl_activated = TRUE], "--- 5R TARGET HIT ---")
            ELSE s
       ELSE arm_and_trail(s, low_price, high_price)

\* mutant: the stop is hit only by a low strictly below it
check_and_manage_trade_strict(s, current_candle, ack) ==
    IF s.active_trade = None THEN s
    ELSE
    LET low_price == current_candle.low
        high_price == current_candle.high
    IN IF low_price < s.active_trade[1].current_sl
       THEN exit_trade(s, s.active_trade[1].current_sl, "SL_HIT", ack)
       ELSE arm_and_trail(s, low_price, high_price)

\* mutant: an armed stop follows the bar low, in either direction, before the
\* stop is tested
check_and_manage_trade_trail_first(s, current_candle, ack) ==
    IF s.active_trade = None THEN s
    ELSE
    LET low_price == current_candle.low
        high_price == current_candle.high
        s1 == IF s.trailing_sl_activated
              THEN [s EXCEPT !.active_trade[1].current_sl = low_price]
              ELSE s
    IN IF low_price <= s1.active_trade[1].current_sl
       THEN exit_trade(s1, s1.active_trade[1].current_sl, "SL_HIT", ack)
       ELSE arm_and_trail(s1, low_price, high_price)

\* mutant: the stop-loss exit is booked at the low of the bar
check_and_manage_trade_exit_at_low(s, current_candle, ack) ==
    IF s.active_trade = None THEN s
    ELSE
    LET low_price == current_candle.low
        high_price == current_candle.high
    IN IF low_price <= s.active_trade[1].current_sl
       THEN exit_trade(s, low_price, "SL_HIT", ack)
       ELSE arm_and_trail(s, low_price, high_price)

check_and_manage_trade(s, current_candle, ack) ==
    IF s.active_trade = None THEN s
    ELSE
    LET low_price == current_candle.low
        high_price == current_candle.high
    IN IF low_price <= s.active_trade[1].current_sl
       THEN exit_trade(s, s.active_trade[1].current_sl, "SL_HIT", ack)
       ELSE arm_and_trail(s, low_price, high_price)

\* mutant: the gap-down exit is booked at the stop instead of the open
handle_gap_down_at_stop(s, opening_price, ack) ==
    IF s.active_trade # None /\ opening_price < s.active_trade[1].current_sl
    THEN exit_trade(Say(s, "GAP-DOWN DETECTED!"), s.active_trade[1].current_sl,
                    "GAP_DOWN_EXIT", ack)
    ELSE s

handle_gap_down(s, opening_price, ack) ==
    IF s.active_trade # None /\ opening_price < s.active_trade[1].current_sl
    THEN exit_trade(Say(s, "GAP-DOWN DETECTED!"), opening_price, "GAP_DOWN_EXIT", ack)
    ELSE s

----------------------------------------------------------------------------
(* The controller driven call by call *)

Candle(time, open, high, low, close) ==
    [time |-> time, open |-> open, high |-> high, low |-> low, close |-> close]

\* State after RiskManager(initial_capital), NoRsiBreakoutStrategy() and
\* TradeManager(...) have been constructed.
Init ==
    /\ active_trade = None
    /\ trailing_sl_activated = FALSE
    /\ daily_r_pnl = RZero
    /\ trading_stopped_for_day = FALSE
    /\ current_capital \in InitialCapitals
    /\ trailing_equity_high = current_capital
    /\ first_candle_high = None
    /\ trade_active = FALSE
    /\ position = 0
    /\ next_order_id = 0
    /\ call = [op |-> "init"]
    /\ orders = <<>>
    /\ log = <<>>
    /\ msgs = <<>>
    /\ now = None
    /\ last_processed_minute = -1
    /\ running = TRUE
    /\ last_day = None
    /\ current_interval_ticks = <<>>
    /\ df = None
    /\ candle_ticks = {}
    /\ ticks_received = 0
    /\ exits_today = <<>>

\* trade_manager.enter_trade(signal)
EnterTrade ==
    \E entry_price \in SignalEntryPrices, sl_price \in SignalStopPrices, ack \in Acks(St) :
        LET signal == [entry_price |-> entry_price, sl_price |-> sl_price]
        IN Commit(enter_trade(Begin(St, [op |-> "enter_trade", signal |-> signal]),
                              signal, ack))

\* trade_manager.check_and_manage_trade(candle); only low and high are read
ManageTrade ==
    \E low \in Prices, high \in Prices, ack \in Acks(St) :
        /\ low <= high
        /\ LET candle == Candle(T0930 + 15, low, high, low, high)
           IN Commit(check_and_manage_trade(
                         Begin(St, [op |-> "check_and_manage_trade",
                                    low |-> low, high |-> high]),
                         candle, ack))

\* trade_manager.handle_gap_down(candle['open'], candle['timestamp'])
HandleGapDown ==
    \E opening_price \in GapOpenPrices, ack \in Acks(St) :
        Commit(handle_gap_down(Begin(St, [op |-> "handle_gap_down",
                                          opening_price |-> opening_price]),
                               opening_price, ack))

\* strategy.day_reset(); trade_manager.day_reset()
DayReset ==
    Commit(day_reset(strategy_day_reset(Begin(St, [op |-> "day_reset"]))))

\* if not trade_manager.active_trade:
\*     signal = strategy.process_candle(candle)
\*     if signal: trade_manager.enter_trade(signal)
look_for_entry(s, candle, ack) ==
    IF s.active_trade = None
    THEN LET r == process_candle(s, candle)
         IN IF r.signal # None THEN enter_trade(r.s, r.signal[1], ack) ELSE r.s
    ELSE s

LookForEntry ==
    \E time \in TimesOfDay, low \in EntryBarLows, high \in EntryBarHighs,
       ack \in Acks(St) :
        LET candle == Candle(time, low, high, low, high)
        IN Commit(look_for_entry(Begin(St, [op |-> "look_for_entry",
                                            candle |-> candle]),
                                 candle, ack))

Next ==
    \/ EnterTrade
    \/ ManageTrade
    \/ HandleGapDown
    \/ DayReset
    \/ LookForEntry

Spec == Init /\ [][Next]_vars

----------------------------------------------------------------------------
(* The capital ledger and the position sizer driven on their own
   (RiskManager and the example at the end of core/risk_manager.py) *)

\* State after RiskManager(initial_capital)
LedgerInit ==
    /\ active_trade = None
    /\ trailing_sl_activated = FALSE
    /\ daily_r_pnl = RZero
    /\ trading_stopped_for_day = FALSE
    /\ current_capital \in LedgerCapitals
    /\ trailing_equity_high = current_capital
    /\ first_candle_high = None
    /\ trade_active = FALSE
    /\ position = 0
    /\ next_order_id = 0
    /\ call = [op |-> "init"]
    /\ orders = <<>>
    /\ log = <<>>
    /\ msgs = <<>>
    /\ now = None
    /\ last_processed_minute = -1
    /\ running = TRUE
    /\ last_day = None
    /\ current_interval_ticks = <<>>
    /\ df = None
    /\ candle_ticks = {}
    /\ ticks_received = 0
    /\ exits_today = <<>>

\* risk_manager.update_capital(new_capital)
UpdateCapital ==
    \E new_capital \in LedgerCapitals :
        Commit(update_capital(Begin(St, [op |-> "update_capital",
                                         new_capital |-> new_capital]),
                              new_capital))

\* qty = risk_manager.calculate_quantity(entry_price, sl_price), with
\* config.NIFTY_LOT_SIZE = lot_size
CalculateQuantity ==
    \E entry_price \in SizingEntryPrices, sl_price \in SizingStopPrices,
       lot_size \in LotSizes :
        Commit(Begin(St, [op |-> "calculate_quantity",
                          entry_price |-> entry_price,
                          sl_price |-> sl_price,
                          lot_size |-> lot_size,
                          qty |-> quantity_for_lot_size(St, entry_price, sl_price,
                                                        lot_size)]))

LedgerNext ==
    \/ UpdateCapital
    \/ CalculateQuantity

LedgerSpec == LedgerInit /\ [][LedgerNext]_vars

----------------------------------------------------------------------------
(* The live loop (main.py); the ticks of an interval are reduced to the bar
   built from them, None when there are no ticks *)

LoopAcks(s) == IF s.next_order_id < MaxLoopOrders THEN BOOLEAN ELSE {FALSE}

\* process_candle_data; an exception that is not an order-placement failure
\* is caught nowhere: it leaves process_candle_data and the loop of main().
process_candle_data(s, candle, fault, ack_exit, ack_entry) ==
    IF candle = None THEN s
    ELSE IF fault = "bar_construction" THEN [s EXCEPT !.running = FALSE]
    ELSE LET s1 == check_and_manage_trade(s, candle[1], ack_exit)
         IN IF s1.active_trade = None /\ fault = "signal_source"
            THEN [s1 EXCEPT !.running = FALSE]
            ELSE look_for_entry(s1, candle[1], ack_entry)

\* one iteration of the while loop of main() at time of day t
main_loop(s, t, candle, fault, ack_exit, ack_entry) ==
    LET minute == t % 60
        boundary == minute % 15 = 0 /\ minute # s.last_processed_minute
        s0 == [s EXCEPT !.now = Some(t)]
        s1 == IF boundary
              THEN process_candle_data(s0, candle, fault, ack_exit, ack_entry)
              ELSE s0
    IN IF ~s1.running THEN s1
       ELSE LET s2 == IF boundary
                      THEN [s1 EXCEPT !.last_processed_minute = minute]
                      ELSE s1
            IN IF t >= T0900 /\ t < T0915 /\ s2.first_candle_high # None
               THEN day_reset(strategy_day_reset(s2))
               ELSE s2

\* The instants at which the next iteration may run: any instant for the
\* first one, then the same instant again or the next one, which after the
\* last instant of a day is the first instant of the next day.
NextInstants(s) ==
    IF s.now = None THEN {LoopInstants[i] : i \in 1..Len(LoopInstants)}
    ELSE LET i == CHOOSE j \in 1..Len(LoopInstants) : LoopInstants[j] = s.now[1]
         IN {LoopInstants[i], LoopInstants[(i % Len(LoopInstants)) + 1]}

\* The bars the ticks collected up to t may give: none, or the last
\* 15-minute bin of the ticks, labelled by its end: t, or t + 15 when a tick
\* arrived after the boundary.
LoopCandles(t) ==
    {None} \cup {Some(Candle(label, low, high, low, high)) :
                    label \in {t, t + 15},
                    low \in LoopBarLows, high \in LoopBarHighs}

MainLoop ==
    /\ running
    /\ \E t \in NextInstants(St), fault \in Faults, ack_exit \in LoopAcks(St) :
         \E candle \in LoopCandles(t), ack_entry \in BOOLEAN :
            LET s == Begin(St, [op |-> "main_loop", t |-> t, candle |-> candle,
                                fault |-> fault])
            IN /\ ack_entry \in
                    LoopAcks(IF candle = None THEN s
                             ELSE check_and_manage_trade(s, candle[1], ack_exit))
               /\ Commit(main_loop(s, t, candle, fault, ack_exit, ack_entry))

LiveNext == MainLoop

LiveSpec == Init /\ [][LiveNext]_vars

----------------------------------------------------------------------------
(* The backtesting loop (backtest.py). run_backtest builds its TradeManager
   with zerodha = None, for which every order raises and is answered as not
   acknowledged; the loop is modelled for any venue, that one included. *)

\* the body of the for loop over the rows of historical_df
backtest_bar(s, current_day, candle, ack_gap, ack_exit, ack_entry) ==
    LET s0 == IF s.last_day # None /\ current_day # s.last_day[1]
              THEN day_reset(strategy_day_reset(s))
              ELSE s
        s1 == [s0 EXCEPT !.last_day = Some(current_day)]
        s2 == IF s1.active_trade # None /\ candle.time = T0915
              THEN handle_gap_down(s1, candle.open, ack_gap)
              ELSE s1
        s3 == check_and_manage_trade(s2, candle, ack_exit)
    IN look_for_entry(s3, candle, ack_entry)

\* The rows come in chronological order: a row is later on the day of the
\* row before it, or on the next day.
NextRows(s, c) ==
    IF s.last_day = None THEN BacktestDays \X BacktestTimes
    ELSE {r \in BacktestDays \X BacktestTimes :
            \/ r[1] # s.last_day[1]
            \/ r[2] > c.candle.time}

BacktestBar ==
    \E r \in NextRows(St, call),
       low \in LoopBarLows, high \in LoopBarHighs, ack_gap \in LoopAcks(St) :
       \E ack_exit \in BOOLEAN, ack_entry \in BOOLEAN :
          LET candle == Candle(r[2], low, high, low, high)
              s == Begin(St, [op |-> "backtest_bar", current_day |-> r[1],
                              candle |-> candle])
              s0 == IF s.last_day # None /\ r[1] # s.last_day[1]
                    THEN day_reset(strategy_day_reset(s))
                    ELSE s
              s2 == IF s0.active_trade # None /\ candle.time = T0915
                    THEN handle_gap_down(s0, candle.open, ack_gap)
                    ELSE s0
          IN /\ ack_exit \in LoopAcks(s2)
             /\ ack_entry \in LoopAcks(check_and_manage_trade(s2, candle, ack_exit))
             /\ Commit(backtest_bar(s, r[1], candle, ack_gap, ack_exit, ack_entry))

BacktestNext == BacktestBar

BacktestSpec == Init /\ [][BacktestNext]_vars

----------------------------------------------------------------------------
(* The tick listener and the processing of a bar (main.py). The listener runs
   in the thread of the websocket (connect(threaded = True)), the processing
   in the main thread, with no lock: the steps of process_candle_data
   interleave with on_ticks. Ticks are numbered in the order they arrive. *)

\* on_ticks, for one tick of the instrument
OnTicks ==
    /\ ticks_received < MaxTicks
    /\ ticks_received' = ticks_received + 1
    /\ current_interval_ticks' = Append(current_interval_ticks, ticks_received + 1)
    /\ call' = [op |-> "on_ticks", tick |-> ticks_received + 1]
    /\ UNCHANGED <<active_trade, trailing_sl_activated, daily_r_pnl,
                   trading_stopped_for_day, current_capital,
                   trailing_equity_high, first_candle_high,
                   trade_active, position, next_order_id, orders, log, msgs,
                   now, last_processed_minute, running, last_day, df,
                   candle_ticks, exits_today>>

\* process_candle_data up to df = pd.DataFrame(current_interval_ticks): the
\* bar is built from the ticks collected so far
BuildCandle ==
    /\ df = None
    /\ current_interval_ticks # <<>>
    /\ df' = Some(current_interval_ticks)
    /\ call' = [op |-> "build_candle"]
    /\ UNCHANGED <<active_trade, trailing_sl_activated, daily_r_pnl,
                   trading_stopped_for_day, current_capital,
                   trailing_equity_high, first_candle_high,
                   trade_active, position, next_order_id, orders, log, msgs,
                   now, last_processed_minute, running, last_day,
                   current_interval_ticks, candle_ticks, ticks_received,
                   exits_today>>

\* process_candle_data from there to current_interval_ticks = []: the bar
\* has been acted on, the list is replaced by an empty one
ClearTicks ==
    /\ df # None
    /\ candle_ticks' = candle_ticks \cup {df[1][i] : i \in 1..Len(df[1])}
    /\ current_interval_ticks' = <<>>
    /\ df' = None
    /\ call' = [op |-> "clear_ticks"]
    /\ UNCHANGED <<active_trade, trailing_sl_activated, daily_r_pnl,
                   trading_stopped_for_day, current_capital,
                   trailing_equity_high, first_candle_high,
                   trade_active, position, next_order_id, orders, log, msgs,
                   now, last_processed_minute, running, last_day,
                   ticks_received, exits_today>>

TickNext == OnTicks \/ BuildCandle \/ ClearTicks

TickSpec == Init /\ [][TickNext]_vars

----------------------------------------------------------------------------
(* The controller driven call by call over trading days with deep gaps, the
   exits of each day recorded *)

\* the reasons of the exits the call has booked, added to those of the day
Tally(s) ==
    LET booked == SelectSeq(s.log, LAMBDA row : row.action = "EXIT")
    IN [s EXCEPT !.exits_today = @ \o [i \in 1..Len(booked) |-> booked[i].reason]]

DayEnterTrade ==
    \E entry_price \in DaySignalEntryPrices, sl_price \in DaySignalStopPrices,
       ack \in LoopAcks(St) :
        LET signal == [entry_price |-> entry_price, sl_price |-> sl_price]
        IN Commit(Tally(enter_trade(Begin(St, [op |-> "enter_trade",
                                               signal |-> signal]),
                                    signal, ack)))

DayManageTrade ==
    \E low \in DayBarLows, high \in DayBarHighs, ack \in LoopAcks(St) :
        /\ low <= high
        /\ LET candle == Candle(T0930 + 15, low, high, low, high)
           IN Commit(Tally(check_and_manage_trade(
                               Begin(St, [op |-> "check_and_manage_trade",
                                          low |-> low, high |-> high]),
                               candle, ack)))

DayHandleGapDown ==
    \E opening_price \in DayOpenPrices, ack \in LoopAcks(St) :
        Commit(Tally(handle_gap_down(Begin(St, [op |-> "handle_gap_down",
                                                opening_price |-> opening_price]),
                                     opening_price, ack)))

DayDayReset ==
    Commit([day_reset(strategy_day_reset(Begin(St, [op |-> "day_reset"])))
               EXCEPT !.exits_today = <<>>])

DayNext ==
    \/ DayEnterTrade
    \/ DayManageTrade
    \/ DayHandleGapDown
    \/ DayDayReset

DaySpec == Init /\ [][DayNext]_vars

----------------------------------------------------------------------------
(* The signal source driven on its own (NoRsiBreakoutStrategy and the example
   at the end of strategies/no_rsi_breakout.py) *)

\* signal = strategy.process_candle(candle)
StrategyProcessCandle ==
    \E time \in TimesOfDay, low \in StrategyBarLows, close \in StrategyBarCloses,
       high \in StrategyBarHighs :
        /\ low <= close
        /\ close <= high
        /\ LET candle == Candle(time, low, high, low, close)
               r == process_candle(St, candle)
           IN Commit(Begin(r.s, [op |-> "process_candle", candle |-> candle,
                                 signal |-> r.signal]))

\* strategy.on_trade_exit()
StrategyOnTradeExit ==
    Commit(on_trade_exit(Begin(St, [op |-> "on_trade_exit"])))

\* strategy.day_reset()
StrategyDayReset ==
    Commit(strategy_day_reset(Begin(St, [op |-> "strategy_day_reset"])))

StrategyNext ==
    \/ StrategyProcessCandle
    \/ StrategyOnTradeExit
    \/ StrategyDayReset

StrategySpec == Init /\ [][StrategyNext]_vars

----------------------------------------------------------------------------
(* What a call did, read from its record *)

HasMsg(ms, m) == \E i \in 1..Len(ms) : ms[i].m = m
HasRow(rows, action) == \E i \in 1..Len(rows) : rows[i].action = action
HasOrder(os, transaction_type) ==
    \E i \in 1..Len(os) : os[i].transaction_type = transaction_type
FailedSell(os) ==
    \E i \in 1..Len(os) : os[i].transaction_type = "SELL" /\ ~os[i].ack
\* exit_trade was invoked with this price and reason and went on to the sell order
ExitAttempt(ms, exit_price, reason) ==
    \E i \in 1..Len(ms) : /\ ms[i].m = "Placing live exit order"
                          /\ ms[i].exit_price = exit_price
                          /\ ms[i].reason = reason

Active == active_trade # None
Manage == call.op = "check_and_manage_trade"

----------------------------------------------------------------------------
(* C1: enter_trade called while a position is active submits no order and
   leaves the active position, the daily state and the capital state as
   they were. *)
C1_EnterWhileActiveIsNoOp ==
    [][(call'.op = "enter_trade" /\ Active)
        => /\ orders' = <<>>
           /\ log' = <<>>
           /\ UNCHANGED <<active_trade, trailing_sl_activated, daily_r_pnl,
                          trading_stopped_for_day, current_capital,
                          trailing_equity_high, position>>]_vars

C1_Witness ==
    /\ call.op = "enter_trade"
    /\ Active
    /\ HasMsg(msgs, "Cannot enter a new trade, another is active.")
    /\ calculate_quantity(St, call.signal.entry_price, call.signal.sl_price) > 0

(* C2: while trading_stopped_for_day is set no call that reaches enter_trade
   submits an order or opens a position; the flag stays set until day_reset,
   is clear after day_reset, and an enter_trade with a signal of non-zero
   size and an acknowledged buy is then accepted. *)
C2_HaltBlocksEntriesUntilDayReset ==
    [][/\ (trading_stopped_for_day /\ call'.op \in {"enter_trade", "look_for_entry"})
            => /\ orders' = <<>>
               /\ active_trade = None
               /\ active_trade' = None
               /\ position' = position
       /\ (trading_stopped_for_day /\ call'.op # "day_reset")
            => trading_stopped_for_day'
       /\ (trading_stopped_for_day' /\ ~trading_stopped_for_day)
            => HasRow(log', "EXIT")
       /\ call'.op = "day_reset" => ~trading_stopped_for_day'
       /\ (/\ call'.op = "enter_trade"
           /\ ~trading_stopped_for_day
           /\ ~Active
           /\ orders' # <<>>
           /\ orders'[1].ack)
            => /\ active_trade' # None
               /\ HasRow(log', "ENTER")]_vars

C2_Witness ==
    /\ call.op = "enter_trade"
    /\ trading_stopped_for_day
    /\ HasMsg(msgs, "Cannot enter new trade, daily loss limit reached.")
    /\ calculate_quantity(St, call.signal.entry_price, call.signal.sl_price) > 0
    /\ next_order_id < MaxOrders

(* C3: a call whose sell order is not acknowledged leaves the active
   position, trailing_sl_activated, daily_r_pnl, trading_stopped_for_day and
   both capital figures as they were, logs no EXIT row and does not call
   strategy.on_trade_exit (trade_active keeps its value). *)
C3_FailedExitChangesNothing ==
    [][FailedSell(orders')
        => /\ Active
           /\ UNCHANGED <<active_trade, trailing_sl_activated, daily_r_pnl,
                          trading_stopped_for_day, current_capital,
                          trailing_equity_high, trade_active, position>>
           /\ ~HasRow(log', "EXIT")
           /\ HasMsg(msgs', "CRITICAL ALERT: FAILED TO EXIT TRADE!")]_vars

C3_Witness ==
    /\ FailedSell(orders)
    /\ Active
    /\ trade_active
    /\ trailing_sl_activated
    /\ active_trade[1].current_sl > active_trade[1].initial_sl

(* C4: after a call of check_and_manage_trade whose sell order failed, the
   next call of check_and_manage_trade submits the sell order again. *)
C4_FailedExitIsRetriedOnNextBar ==
    [][(Manage /\ FailedSell(orders) /\ Active
        /\ call'.op = "check_and_manage_trade")
        => HasOrder(orders', "SELL")]_vars

(* C5: from one call to the next the current_sl of one and the same active
   trade never decreases, whatever the call and whether or not its exit
   order failed, and it is never below initial_sl. *)
C5_StopNeverDecreases ==
    [][/\ (Active /\ active_trade' # None
           /\ active_trade'[1].order_id = active_trade[1].order_id)
            => active_trade'[1].current_sl >= active_trade[1].current_sl
       /\ active_trade' # None
            => active_trade'[1].current_sl >= active_trade'[1].initial_sl]_vars

C5_Witness ==
    /\ Manage
    /\ Active
    /\ FailedSell(orders)
    /\ call.low < active_trade[1].current_sl
    /\ active_trade[1].current_sl > active_trade[1].initial_sl

----------------------------------------------------------------------------
(* What one call of check_and_manage_trade did to an active trade; these are
   action formulas, read between the state before the call and after it. *)

\* the stop-loss exit fired: exit_trade went on to the sell order
ExitFired == HasOrder(orders', "SELL")
\* the trailing stop was armed by this call
ArmFired == HasMsg(msgs', "--- 5R TARGET HIT ---")
\* the stop was trailed by this call
TrailFired == HasRow(log', "TSL_UPDATE")
ManageOnActive == call'.op = "check_and_manage_trade" /\ Active
\* the trade is the same after the call as before it
SameTrade ==
    /\ active_trade' # None
    /\ active_trade'[1].order_id = active_trade[1].order_id

(* C6 as stated: on every bar passed to check_and_manage_trade while a trade
   is active exactly one of the stop-loss exit and the arming / trailing of
   the stop fires: never both, never neither. *)
C6_ExactlyOneFires ==
    [][ManageOnActive => (ExitFired <=> ~(ArmFired \/ TrailFired))]_vars

(* C6 amended: at most one of the two fires.  The stop-loss exit fires iff
   low <= current_sl, and then nothing is armed or trailed; arming or
   trailing fires iff low > current_sl and the stop is armed or
   high >= target_price; on a bar with low > current_sl, high < target_price
   and the stop not armed neither fires and the call changes nothing. *)
C6_AtMostOneFires ==
    [][ManageOnActive =>
        LET t == active_trade[1]
            hit == call'.low <= t.current_sl
            trail == ~hit /\ (trailing_sl_activated \/ call'.high >= t.target_price)
        IN /\ ~(ExitFired /\ (ArmFired \/ TrailFired))
           /\ ExitFired <=> hit
           /\ (ArmFired \/ TrailFired) <=> trail
           /\ (~hit /\ ~trail)
                => /\ orders' = <<>> /\ log' = <<>> /\ msgs' = <<>>
                   /\ UNCHANGED <<active_trade, trailing_sl_activated, daily_r_pnl,
                                  trading_stopped_for_day, current_capital,
                                  trailing_equity_high, trade_active, position>>]_vars

\* a bar on which neither fires
C6_Witness ==
    /\ Manage
    /\ Active
    /\ ~trailing_sl_activated
    /\ call.low > active_trade[1].current_sl
    /\ call.high < active_trade[1].target_price
    /\ orders = <<>> /\ log = <<>> /\ msgs = <<>>

(* C7: when low <= current_sl, check_and_manage_trade calls exit_trade with
   price current_sl and reason SL_HIT, which submits one sell order for the
   trade's quantity, and the call neither arms the trailing stop nor changes
   current_sl, also when high >= target_price. *)
C7_StopHitTakesPrecedence ==
    [][(ManageOnActive /\ call'.low <= active_trade[1].current_sl)
        => /\ ExitAttempt(msgs', active_trade[1].current_sl, "SL_HIT")
           /\ Len(orders') = 1
           /\ orders'[1].transaction_type = "SELL"
           /\ orders'[1].quantity = active_trade[1].quantity
           /\ ~ArmFired
           /\ ~TrailFired
           /\ trailing_sl_activated' => trailing_sl_activated
           /\ active_trade' # None => active_trade' = active_trade
           /\ HasRow(log', "EXIT")
                => /\ log'[1].price = active_trade[1].current_sl
                   /\ log'[1].reason = "SL_HIT"]_vars

\* the stop and the target are both touched and the sell order failed
C7_Witness ==
    /\ Manage
    /\ Active
    /\ ~trailing_sl_activated
    /\ call.low <= active_trade[1].current_sl
    /\ call.high >= active_trade[1].target_price
    /\ ExitAttempt(msgs, active_trade[1].current_sl, "SL_HIT")
    /\ FailedSell(orders)

(* C8: when low > current_sl and high >= target_price on a trade whose
   trailing stop is not armed, check_and_manage_trade arms it, submits no
   order and leaves the trade active; once armed, the flag is cleared only
   by a call that logs an EXIT row or by day_reset. *)
C8_TargetArmsAndNeverCloses ==
    [][/\ (/\ ManageOnActive
           /\ ~trailing_sl_activated
           /\ call'.low > active_trade[1].current_sl
           /\ call'.high >= active_trade[1].target_price)
            => /\ trailing_sl_activated'
               /\ ArmFired
               /\ orders' = <<>>
               /\ ~HasRow(log', "EXIT")
               /\ SameTrade
               /\ position' = position
       /\ (trailing_sl_activated /\ ~trailing_sl_activated')
            => (HasRow(log', "EXIT") \/ call'.op = "day_reset")
       /\ (trailing_sl_activated /\ trailing_sl_activated')
            => SameTrade]_vars

C8_Witness ==
    /\ Manage
    /\ Active
    /\ trailing_sl_activated
    /\ HasMsg(msgs, "--- 5R TARGET HIT ---")
    /\ call.high >= active_trade[1].target_price
    /\ orders = <<>>
    /\ position = active_trade[1].quantity

(* C9: on a bar with low > current_sl, if the trailing stop is armed before
   the call or armed by it, current_sl becomes max(current_sl, low) and a
   TSL_UPDATE row is logged iff current_sl increased; if it is not armed,
   current_sl is unchanged and no row is logged. *)
C9_RatchetRule ==
    [][(ManageOnActive /\ call'.low > active_trade[1].current_sl)
        => LET t == active_trade[1]
               armed == trailing_sl_activated \/ call'.high >= t.target_price
           IN /\ SameTrade
              /\ trailing_sl_activated' = armed
              /\ armed => /\ active_trade'[1].current_sl = Max(t.current_sl, call'.low)
                          /\ TrailFired <=> active_trade'[1].current_sl > t.current_sl
                          /\ TrailFired => log'[1].price = active_trade'[1].current_sl
              /\ ~armed => /\ active_trade'[1].current_sl = t.current_sl
                           /\ ~TrailFired
              /\ active_trade' = [active_trade EXCEPT
                                    ![1].current_sl = active_trade'[1].current_sl]]_vars

\* the bar that arms the trailing stop also trails it
C9_Witness ==
    /\ Manage
    /\ Active
    /\ HasMsg(msgs, "--- 5R TARGET HIT ---")
    /\ HasRow(log, "TSL_UPDATE")
    /\ active_trade[1].current_sl = call.low
    /\ active_trade[1].current_sl > active_trade[1].initial_sl

----------------------------------------------------------------------------
(* Scenario B: entry 22000, stop 21950, target 22250 *)

ScenarioB(t) ==
    /\ t.entry_price = 22000
    /\ t.initial_sl = 21950
    /\ t.target_price = 22250

(* C10 as stated: a first bar with high 22300 and low 21950 arms the trailing
   stop without closing the position and leaves the stop at 21950; a second
   bar with low 22100 ratchets the stop to 22100; on a third bar with low
   22050 the stop does not move down. *)
C10_ScenarioB ==
    [][(ManageOnActive /\ ScenarioB(active_trade[1]))
        => LET t == active_trade[1]
           IN /\ (/\ ~trailing_sl_activated /\ t.current_sl = 21950
                  /\ call'.high = 22300 /\ call'.low = 21950)
                   => /\ trailing_sl_activated'
                      /\ orders' = <<>>
                      /\ SameTrade
                      /\ active_trade'[1].current_sl = 21950
              /\ (/\ trailing_sl_activated /\ t.current_sl = 21950
                  /\ call'.low = 22100)
                   => /\ SameTrade
                      /\ active_trade'[1].current_sl = 22100
              /\ (/\ trailing_sl_activated /\ t.current_sl = 22100
                  /\ call'.low = 22050)
                   => (active_trade' # None
                         => active_trade'[1].current_sl = 22100)]_vars

(* C10 amended: the first bar with high 22300 and low 21950 touches the stop:
   check_and_manage_trade attempts an SL_HIT exit at 21950 and does not arm.
   A first bar with high 22300 and its low above the stop (22000) arms the
   trailing stop without closing the position and trails the stop to that
   low; a second bar with low 22100 trails the stop to 22100; on a third bar
   with low 22050 the stop does not move down: the bar is a stop hit at
   22100. *)
C10_ScenarioB_Amended ==
    [][(ManageOnActive /\ ScenarioB(active_trade[1]))
        => LET t == active_trade[1]
           IN /\ (/\ ~trailing_sl_activated /\ t.current_sl = 21950
                  /\ call'.high = 22300 /\ call'.low = 21950)
                   => /\ ExitAttempt(msgs', 21950, "SL_HIT")
                      /\ ~ArmFired
                      /\ ~trailing_sl_activated'
                      /\ active_trade' # None => active_trade' = active_trade
              /\ (/\ ~trailing_sl_activated /\ t.current_sl = 21950
                  /\ call'.high = 22300 /\ call'.low = 22000)
                   => /\ trailing_sl_activated'
                      /\ orders' = <<>>
                      /\ SameTrade
                      /\ active_trade'[1].current_sl = 22000
              /\ (/\ trailing_sl_activated /\ t.current_sl = 22000
                  /\ call'.low = 22100)
                   => /\ SameTrade
                      /\ orders' = <<>>
                      /\ active_trade'[1].current_sl = 22100
              /\ (/\ trailing_sl_activated /\ t.current_sl = 22100
                  /\ call'.low = 22050)
                   => /\ ExitAttempt(msgs', 22100, "SL_HIT")
                      /\ active_trade' # None
                           => active_trade'[1].current_sl = 22100]_vars

\* the third bar: the stop trailed to 22100 is hit and the sell order failed
C10_Witness ==
    /\ Manage
    /\ Active
    /\ ScenarioB(active_trade[1])
    /\ trailing_sl_activated
    /\ active_trade[1].current_sl = 22100
    /\ call.low = 22050
    /\ FailedSell(orders)

----------------------------------------------------------------------------
(* What an exit did *)

\* the call's sell order was acknowledged
AckedSell(os) ==
    \E i \in 1..Len(os) : os[i].transaction_type = "SELL" /\ os[i].ack
\* everything but the record of the call is as it was
NothingChanged ==
    UNCHANGED <<active_trade, trailing_sl_activated, daily_r_pnl,
                trading_stopped_for_day, current_capital, trailing_equity_high,
                first_candle_high, trade_active, position, next_order_id>>

(* C11: handle_gap_down called on an active trade with opening_price <
   current_sl submits one sell order for the trade's quantity with exit price
   opening_price and reason GAP_DOWN_EXIT; when the order is acknowledged the
   trade is closed, the EXIT row carries opening_price, the reason and
   pnl = (opening_price - entry_price) * quantity, and that pnl is booked.
   With opening_price >= current_sl, or with no active trade, it submits
   nothing, logs nothing and changes nothing. *)
C11_GapDownExit ==
    [][call'.op = "handle_gap_down" =>
        LET gap == Active /\ call'.opening_price < active_trade[1].current_sl
        IN /\ gap =>
                LET t == active_trade[1]
                    pnl == (call'.opening_price - t.entry_price) * t.quantity
                IN /\ ExitAttempt(msgs', call'.opening_price, "GAP_DOWN_EXIT")
                   /\ Len(orders') = 1
                   /\ orders'[1].transaction_type = "SELL"
                   /\ orders'[1].quantity = t.quantity
                   /\ orders'[1].ack
                        => /\ active_trade' = None
                           /\ Len(log') = 1
                           /\ log'[1].action = "EXIT"
                           /\ log'[1].price = call'.opening_price
                           /\ log'[1].reason = "GAP_DOWN_EXIT"
                           /\ log'[1].pnl = pnl
                           /\ current_capital' = current_capital + pnl
           /\ ~gap => /\ orders' = <<>> /\ log' = <<>> /\ msgs' = <<>>
                      /\ NothingChanged]_vars

\* an acknowledged gap-down exit, booked at the opening price
C11_Witness ==
    /\ call.op = "handle_gap_down"
    /\ AckedSell(orders)
    /\ HasRow(log, "EXIT")
    /\ log[1].reason = "GAP_DOWN_EXIT"
    /\ log[1].price = call.opening_price
    /\ log[1].pnl < 0
    /\ ~Active

(* C12: a call whose sell order is acknowledged, exiting at exit_price, adds
   (exit_price - entry_price) / initial_risk_per_share to daily_r_pnl, makes
   current_capital its previous value plus (exit_price - entry_price) *
   quantity, and raises trailing_equity_high to the new current_capital iff
   the new current_capital exceeds it. *)
C12_ExitAccounting ==
    [][AckedSell(orders') =>
        /\ Active
        /\ LET t == active_trade[1]
               x == msgs'[CHOOSE i \in 1..Len(msgs') :
                            msgs'[i].m = "Placing live exit order"].exit_price
               risk == t.initial_risk_per_share
           IN /\ daily_r_pnl'.d > 0
              /\ daily_r_pnl'.n * daily_r_pnl.d * risk
                   = (daily_r_pnl.n * risk + (x - t.entry_price) * daily_r_pnl.d)
                       * daily_r_pnl'.d
              /\ current_capital' = current_capital + (x - t.entry_price) * t.quantity
              /\ trailing_equity_high' =
                   IF current_capital' > trailing_equity_high
                   THEN current_capital' ELSE trailing_equity_high
              /\ (trailing_equity_high' # trailing_equity_high)
                   <=> current_capital' > trailing_equity_high]_vars

\* a profitable exit that raised trailing_equity_high
C12_Witness ==
    /\ AckedSell(orders)
    /\ HasRow(log, "EXIT")
    /\ log[1].pnl > 0
    /\ daily_r_pnl.n > 0
    /\ trailing_equity_high = current_capital
    /\ \E c \in InitialCapitals : current_capital = c + log[1].pnl

(* C13: a call whose sell order is acknowledged submits that one order, for
   the quantity of the active trade, which is the quantity of the buy order
   that opened it; it logs exactly one EXIT row, clears active_trade and
   trailing_sl_activated and calls strategy.on_trade_exit (trade_active is
   FALSE afterwards), also when the same exit sets trading_stopped_for_day. *)
C13_ExitTransition ==
    [][/\ AckedSell(orders')
            => /\ Active
               /\ Len(orders') = 1
               /\ orders'[1].quantity = active_trade[1].quantity
               /\ position' = position - active_trade[1].quantity
               /\ Len(log') = 1
               /\ log'[1].action = "EXIT"
               /\ log'[1].quantity = active_trade[1].quantity
               /\ active_trade' = None
               /\ ~trailing_sl_activated'
               /\ ~trade_active'
       /\ (active_trade' # None /\ active_trade' # active_trade /\ ~(Active /\ SameTrade))
            => /\ Len(orders') = 1
               /\ orders'[1].transaction_type = "BUY"
               /\ orders'[1].ack
               /\ orders'[1].quantity = active_trade'[1].quantity
       /\ (Active /\ SameTrade)
            => active_trade'[1].quantity = active_trade[1].quantity]_vars

\* an exit of a trade opened on a signal of the strategy, which also stops
\* trading for the day
C13_Witness ==
    /\ AckedSell(orders)
    /\ HasRow(log, "EXIT")
    /\ HasMsg(msgs, "--- TRADING STOPPED ---")
    /\ trading_stopped_for_day
    /\ ~Active
    /\ ~trade_active
    /\ first_candle_high # None

(* C14 as stated: an acknowledged exit sets trading_stopped_for_day iff the
   updated daily_r_pnl is strictly below MAX_DAILY_DRAWDOWN_R; an exit that
   leaves daily_r_pnl exactly at MAX_DAILY_DRAWDOWN_R does not stop trading. *)
C14_HaltIffStrictlyBelowFloor ==
    [][AckedSell(orders')
        => (trading_stopped_for_day' <=> RLt(daily_r_pnl', MAX_DAILY_DRAWDOWN_R))]_vars

----------------------------------------------------------------------------
(* What an entry did *)

FailedBuy(os) ==
    \E i \in 1..Len(os) : os[i].transaction_type = "BUY" /\ ~os[i].ack
\* enter_trade is called directly, no trade is active and trading is not stopped
EnterWhenIdle ==
    /\ call'.op = "enter_trade"
    /\ ~Active
    /\ ~trading_stopped_for_day

(* C15: a call whose buy order is not acknowledged submits that one order
   only, creates no active trade, leaves the daily state, the capital state
   and the position as they were, logs no row, resets the strategy
   (trade_active is FALSE afterwards) and sends an alert.  Buy orders are
   submitted only by a call that passes a signal to enter_trade, one per
   signal. *)
C15_EntryFailure ==
    [][/\ FailedBuy(orders')
            => /\ Len(orders') = 1
               /\ active_trade = None
               /\ active_trade' = None
               /\ UNCHANGED <<trailing_sl_activated, daily_r_pnl,
                              trading_stopped_for_day, current_capital,
                              trailing_equity_high, position, next_order_id>>
               /\ log' = <<>>
               /\ ~trade_active'
               /\ HasMsg(msgs', "ALERT: Failed to place entry order")
       /\ HasOrder(orders', "BUY")
            => /\ call'.op \in {"enter_trade", "look_for_entry"}
               /\ Len(orders') = 1]_vars

\* the buy order for a signal of the strategy failed although the venue could
\* have acknowledged it
C15_Witness ==
    /\ call.op = "look_for_entry"
    /\ FailedBuy(orders)
    /\ ~Active
    /\ ~trade_active
    /\ first_candle_high # None
    /\ call.candle.close > first_candle_high[1]
    /\ next_order_id < MaxOrders

(* C16: when the calculated quantity is 0 (entry_price <= sl_price, or the
   quantity floored to the lot size is 0), enter_trade submits no order,
   creates no active trade, logs no row, leaves the daily and the capital
   state as they were and calls strategy.on_trade_exit (trade_active is
   FALSE afterwards), so that the strategy can signal again. *)
C16_SizingRejection ==
    [][/\ (EnterWhenIdle
           /\ calculate_quantity(St, call'.signal.entry_price,
                                 call'.signal.sl_price) = 0)
            => HasMsg(msgs', "Calculated quantity is 0. Skipping trade.")
       /\ (EnterWhenIdle /\ call'.signal.entry_price <= call'.signal.sl_price)
            => HasMsg(msgs', "Calculated quantity is 0. Skipping trade.")
       /\ HasMsg(msgs', "Calculated quantity is 0. Skipping trade.")
            => /\ orders' = <<>>
               /\ log' = <<>>
               /\ active_trade' = None
               /\ ~trade_active'
               /\ UNCHANGED <<trailing_sl_activated, daily_r_pnl,
                              trading_stopped_for_day, current_capital,
                              trailing_equity_high, position, next_order_id,
                              first_candle_high>>]_vars

\* a signal of the strategy with entry above stop whose quantity floors to 0
C16_Witness ==
    /\ call.op = "look_for_entry"
    /\ HasMsg(msgs, "Calculated quantity is 0. Skipping trade.")
    /\ first_candle_high # None
    /\ call.candle.close > first_candle_high[1]
    /\ call.candle.close > call.candle.low
    /\ ~trade_active
    /\ ~Active

(* C17: enter_trade called with no active trade and trading not stopped, for
   a signal of non-zero quantity, submits one buy order for that quantity;
   when it is acknowledged the active trade has entry_price and initial_sl =
   current_sl from the signal, initial_risk_per_share = entry_price -
   sl_price, target_price = entry_price + initial_risk_per_share *
   TARGET_RISK_REWARD_RATIO and the calculated quantity,
   trailing_sl_activated is FALSE and exactly one ENTER row is logged. *)
C17_EntrySuccess ==
    [][EnterWhenIdle =>
        LET sg == call'.signal
            qty == calculate_quantity(St, sg.entry_price, sg.sl_price)
        IN qty > 0 =>
            /\ Len(orders') = 1
            /\ orders'[1].transaction_type = "BUY"
            /\ orders'[1].quantity = qty
            /\ orders'[1].ack
                 => /\ active_trade' # None
                    /\ LET t == active_trade'[1]
                       IN /\ t.entry_price = sg.entry_price
                          /\ t.initial_sl = sg.sl_price
                          /\ t.current_sl = sg.sl_price
                          /\ t.initial_risk_per_share = sg.entry_price - sg.sl_price
                          /\ t.target_price = sg.entry_price
                                + (sg.entry_price - sg.sl_price) * TARGET_RISK_REWARD_RATIO
                          /\ t.quantity = qty
                    /\ ~trailing_sl_activated'
                    /\ position' = position + qty
                    /\ Len(log') = 1
                    /\ log'[1].action = "ENTER"
                    /\ log'[1].price = sg.entry_price
                    /\ log'[1].quantity = qty
                    /\ log'[1].sl = sg.sl_price]_vars

\* entry 22100, stop 22000: risk 100, target 22600
C17_Witness ==
    /\ call.op = "enter_trade"
    /\ Active
    /\ HasRow(log, "ENTER")
    /\ active_trade[1].entry_price = 22100
    /\ active_trade[1].initial_sl = 22000
    /\ active_trade[1].target_price = 22600
    /\ active_trade[1].quantity = 50
    /\ position = 50

----------------------------------------------------------------------------
(* The capital ledger and the position sizer *)

Sizing == call'.op = "calculate_quantity"

(* C18: over any sequence of update_capital calls, and of updates made by
   exits, trailing_equity_high never decreases and is >= current_capital
   after every step; update_capital(c) sets current_capital to c and
   trailing_equity_high to the larger of its old value and c, so an update to
   a capital that is not above trailing_equity_high changes current_capital
   only. *)
C18_HighWaterMonotone ==
    [][/\ trailing_equity_high' >= trailing_equity_high
       /\ trailing_equity_high' >= current_capital'
       /\ current_capital' <= trailing_equity_high
            => trailing_equity_high' = trailing_equity_high
       /\ call'.op = "update_capital"
            => /\ current_capital' = call'.new_capital
               /\ trailing_equity_high' = Max(trailing_equity_high, call'.new_capital)
               /\ UNCHANGED <<active_trade, trailing_sl_activated, daily_r_pnl,
                              trading_stopped_for_day, first_candle_high,
                              trade_active, position, next_order_id>>]_vars

\* update_capital(102000) after the capital had been 105000
C18_Witness ==
    /\ call.op = "update_capital"
    /\ call.new_capital = 102000
    /\ current_capital = 102000
    /\ trailing_equity_high = 105000

(* C19: for entry_price > sl_price > 0 and every state of the ledger the
   calculated quantity is >= 0 and a multiple of the lot size; for
   entry_price <= sl_price it is 0; for a lot size <= 0 it is 0.  The
   calculation changes nothing. *)
C19_SizingResultShape ==
    [][Sizing =>
        LET c == call'
        IN /\ (c.entry_price > c.sl_price /\ c.sl_price > 0)
                => /\ c.qty >= 0
                   /\ \E k \in 0..c.qty : c.qty = k * c.lot_size
           /\ c.entry_price <= c.sl_price => c.qty = 0
           /\ c.lot_size <= 0 => c.qty = 0
           /\ NothingChanged]_vars

\* a quantity of several lots, and a high-water mark above the current capital
C19_Witness ==
    /\ call.op = "calculate_quantity"
    /\ call.entry_price > call.sl_price
    /\ call.lot_size = NIFTY_LOT_SIZE
    /\ call.qty >= 2 * NIFTY_LOT_SIZE
    /\ trailing_equity_high > current_capital

(* C20: for entry_price > sl_price and a positive lot size the quantity is
   the largest multiple of the lot size that is at most
   min(trailing_equity_high * RISK_PER_TRADE_PERCENT / 100 / (entry - stop),
       current_capital * MAX_CAPITAL_ALLOCATION_PERCENT / 100 / entry):
   quantity * (entry - stop) does not exceed the risk amount taken from
   trailing_equity_high, quantity * entry does not exceed the allocation
   taken from current_capital, and one more lot would exceed one of them.
   With trailing_equity_high = current_capital = 105000, entry 22050, stop
   22000 and lot size 50 the quantity is 0. *)
C20_SizingFormula ==
    [][Sizing =>
        LET c == call'
            d == c.entry_price - c.sl_price
            risk100 == trailing_equity_high * RISK_PER_TRADE_PERCENT
            alloc100 == current_capital * MAX_CAPITAL_ALLOCATION_PERCENT
        IN /\ (c.entry_price > c.sl_price /\ c.lot_size > 0)
                => /\ c.qty >= 0
                   /\ c.qty % c.lot_size = 0
                   /\ c.qty * d * 100 <= risk100
                   /\ c.qty * c.entry_price * 100 <= alloc100
                   /\ \/ (c.qty + c.lot_size) * d * 100 > risk100
                      \/ (c.qty + c.lot_size) * c.entry_price * 100 > alloc100
           /\ (/\ trailing_equity_high = 105000 /\ current_capital = 105000
               /\ c.entry_price = 22050 /\ c.sl_price = 22000 /\ c.lot_size = 50)
                => c.qty = 0]_vars

\* the risk amount binds and is taken from trailing_equity_high: with the
\* risk amount of current_capital the quantity would be too large
C20_Witness ==
    /\ call.op = "calculate_quantity"
    /\ call.entry_price > call.sl_price
    /\ call.lot_size = NIFTY_LOT_SIZE
    /\ call.qty > 0
    /\ trailing_equity_high > current_capital
    /\ call.qty * (call.entry_price - call.sl_price) * 100
         > current_capital * RISK_PER_TRADE_PERCENT
    /\ (call.qty + call.lot_size) * call.entry_price * 100
         <= current_capital * MAX_CAPITAL_ALLOCATION_PERCENT

----------------------------------------------------------------------------
(* day_reset *)

(* C21: day_reset is idempotent: a day_reset that follows a day_reset leaves
   active_trade, trailing_sl_activated, daily_r_pnl, trading_stopped_for_day
   and everything else as the first one left them. *)
C21_DayResetIdempotent ==
    [][(call.op = "day_reset" /\ call'.op = "day_reset")
        => /\ UNCHANGED <<active_trade, trailing_sl_activated, daily_r_pnl,
                          trading_stopped_for_day>>
           /\ NothingChanged]_vars

\* a day_reset after a day on which trading was stopped with a loss booked
C21_Witness ==
    /\ call.op = "day_reset"
    /\ ~trading_stopped_for_day
    /\ daily_r_pnl = RZero
    /\ ~Active
    /\ current_capital < trailing_equity_high
    /\ next_order_id >= 2

(* C22: day_reset sets active_trade to None, trailing_sl_activated to FALSE,
   daily_r_pnl to 0 and trading_stopped_for_day to FALSE and leaves
   current_capital and trailing_equity_high as they were. *)
C22_DayResetFrame ==
    [][call'.op = "day_reset"
        => /\ active_trade' = None
           /\ ~trailing_sl_activated'
           /\ daily_r_pnl' = RZero
           /\ ~trading_stopped_for_day'
           /\ UNCHANGED <<current_capital, trailing_equity_high>>]_vars

\* a day_reset with a capital that a loss had brought below its high-water mark
C22_Witness ==
    /\ call.op = "day_reset"
    /\ active_trade = None
    /\ daily_r_pnl = RZero
    /\ \E c \in InitialCapitals : trailing_equity_high = c /\ current_capital < c

(* C27 as stated: on a session-open bar with open < current_sl, processed as
   handle_gap_down followed by check_and_manage_trade, every exit recorded
   has exit price = open and reason GAP_DOWN_EXIT, also when the sell order
   of handle_gap_down failed and the one of check_and_manage_trade is
   acknowledged. *)
C27_GapBarExitsAtOpen ==
    [][(/\ call.op = "handle_gap_down"
        /\ Active
        /\ call.opening_price < active_trade[1].current_sl
        /\ call'.op = "check_and_manage_trade"
        /\ call'.low <= call.opening_price
        /\ call.opening_price <= call'.high
        /\ HasRow(log', "EXIT"))
        => /\ log'[1].price = call.opening_price
           /\ log'[1].reason = "GAP_DOWN_EXIT"]_vars

----------------------------------------------------------------------------
(* The signal source *)

AsksStrategy == call'.op = "process_candle"
\* the bar is a breakout the strategy is able to see
Breakout(c) ==
    /\ c.time >= T0915
    /\ first_candle_high # None
    /\ c.close > first_candle_high[1]

(* C26: once process_candle has returned a signal (trade_active is set) it
   returns no signal on any later bar until on_trade_exit is called; only
   on_trade_exit clears trade_active and only a signal sets it; after
   on_trade_exit the next bar whose close exceeds first_candle_high yields a
   signal again. *)
C26_SignalHandshake ==
    [][/\ (AsksStrategy /\ trade_active)
            => /\ call'.signal = None
               /\ trade_active'
       /\ (AsksStrategy /\ call'.signal # None) => (~trade_active /\ trade_active')
       /\ (trade_active /\ ~trade_active') => call'.op = "on_trade_exit"
       /\ (~trade_active /\ trade_active') => (AsksStrategy /\ call'.signal # None)
       /\ call'.op = "on_trade_exit" => ~trade_active'
       /\ (AsksStrategy /\ ~trade_active /\ Breakout(call'.candle))
            => call'.signal # None]_vars

\* a breakout bar that yields no signal because a trade is marked active
C26_Witness ==
    /\ call.op = "process_candle"
    /\ trade_active
    /\ call.signal = None
    /\ Breakout(call.candle)

(* C30: process_candle returns a signal iff the bar is timed 09:15 or later,
   first_candle_high is set, no trade is marked active and the close is
   strictly above first_candle_high; the signal has entry_price = close and
   sl_price = low.  first_candle_high is set only by a 09:30 bar processed
   while it is None, to that bar's high, and that bar yields no signal; it
   is cleared only by day_reset or by a bar timed before 09:15, which yields
   no signal. *)
C30_SignalRule ==
    [][/\ AsksStrategy =>
            LET c == call'.candle
            IN /\ call'.signal # None <=> (Breakout(c) /\ ~trade_active)
               /\ call'.signal # None
                    => /\ call'.signal[1].entry_price = c.close
                       /\ call'.signal[1].sl_price = c.low
                       /\ first_candle_high' = first_candle_high
               /\ c.time < T0915
                    => (first_candle_high' = None /\ call'.signal = None)
               /\ (c.time >= T0915 /\ first_candle_high = None)
                    => /\ call'.signal = None
                       /\ first_candle_high' =
                            IF c.time = T0930 THEN Some(c.high) ELSE None
               /\ (c.time >= T0915 /\ first_candle_high # None)
                    => first_candle_high' = first_candle_high
       /\ first_candle_high' # first_candle_high
            => call'.op \in {"process_candle", "strategy_day_reset"}
       /\ call'.op = "strategy_day_reset" => first_candle_high' = None]_vars

\* a signal on a bar that closed below its high
C30_Witness ==
    /\ call.op = "process_candle"
    /\ call.signal # None
    /\ call.signal[1].entry_price = call.candle.close
    /\ call.signal[1].sl_price = call.candle.low
    /\ call.candle.close < call.candle.high
    /\ call.candle.low < call.candle.close
    /\ first_candle_high # None
    /\ call.candle.close > first_candle_high[1]
    /\ trade_active

----------------------------------------------------------------------------
(* The tick listener *)

(* C25 as stated: under any interleaving of the listener with the processing
   of a bar no tick is discarded: every tick the listener has appended is in
   a bar that was built or still in the list, waiting for the next bar. *)
C25_NoTickLost ==
    \A tick \in 1..ticks_received :
        \/ tick \in candle_ticks
        \/ \E i \in 1..Len(current_interval_ticks) :
              current_interval_ticks[i] = tick

----------------------------------------------------------------------------
(* The backtesting loop *)

(* C28 as stated: a position that is ACTIVE after the last bar of a day is
   carried overnight: the first bar of the next day finds it, so that after
   that bar it is still the same trade or a sell order for it has been
   acknowledged. *)
C28_PositionCarriedOvernight ==
    [][(/\ call'.op = "backtest_bar"
        /\ Active
        /\ last_day # None
        /\ call'.current_day # last_day[1])
        => \/ AckedSell(orders')
           \/ /\ active_trade' # None
              /\ active_trade'[1].order_id = active_trade[1].order_id]_vars

----------------------------------------------------------------------------
(* The live loop *)

(* C23 as stated: in the processing of a bar the signal source is asked only when no
   position is active and trading is not halted, so that no signal ever
   reaches enter_trade, and is turned down there, on a halted day. *)
C23_HaltedNeverAsksForSignal ==
    [][call'.op = "main_loop"
        => ~HasMsg(msgs', "Cannot enter new trade, daily loss limit reached.")]_vars

(* C24 as stated: an exception raised while a bar is processed, other than a failure of
   order placement, is caught and the loop goes on: the loop is never left. *)
C24_LoopSurvivesBarExceptions == running

(* C29 as stated: the live loop starts every day with a reset ledger: when the clock
   passes from the reset window (09:00 to 09:15) to the 09:15 boundary, the
   day's result is zero and trading is not halted. *)
C29_ResetAtEveryDayBoundary ==
    [][(/\ call'.op = "main_loop"
        /\ now = Some(T0900 + 1)
        /\ now' = Some(T0915))
        => /\ daily_r_pnl = RZero
           /\ ~trading_stopped_for_day]_vars

----------------------------------------------------------------------------
(* The controller and the venue, the controller and the signal source *)

(* C31 as stated: in every reachable state the net quantity held at the
   venue (acknowledged buys minus acknowledged sells) equals the quantity of
   the active trade, and is 0 when there is none. *)
C31_PositionTracked ==
    position = IF Active THEN active_trade[1].quantity ELSE 0

(* C32 as stated: after each bar has been processed by the main loop, and
   after each day reset it makes, the signal source holds a trade to be open
   iff the controller has an active trade. *)
C32_StrategyAgreesWithController ==
    running => (trade_active <=> Active)

----------------------------------------------------------------------------
(* The life of a trade *)

(* C33: in every reachable state trailing_sl_activated is TRUE only while a
   trade is active, and it is FALSE after every call that entered a trade,
   every call that exited one and every day_reset. *)
C33_TrailingFlagImpliesActive ==
    /\ [](trailing_sl_activated => Active)
    /\ [][(\/ HasRow(log', "ENTER")
           \/ HasRow(log', "EXIT")
           \/ call'.op = "day_reset")
           => ~trailing_sl_activated']_vars

\* an exit with a profit: the stop had been trailed above the entry price, so
\* the flag was set while the trade was active, and it is cleared
C33_Witness ==
    /\ call.op = "check_and_manage_trade"
    /\ HasRow(log, "EXIT")
    /\ log[1].pnl > 0
    /\ ~Active
    /\ ~trailing_sl_activated

\* the fields of a trade that are fixed at entry
FixedAtEntry(t) ==
    <<t.order_id, t.entry_price, t.initial_sl, t.target_price, t.quantity,
      t.initial_risk_per_share>>

(* C34: an active trade is well formed as long as it is active: its quantity
   is a positive multiple of the lot size, initial_sl < entry_price <
   target_price, initial_sl <= current_sl, initial_risk_per_share =
   entry_price - initial_sl, and from its entry to its exit no field but
   current_sl changes. *)
C34_TradeWellFormed ==
    /\ [](Active =>
            LET t == active_trade[1]
            IN /\ t.quantity > 0
               /\ t.quantity % NIFTY_LOT_SIZE = 0
               /\ t.initial_sl < t.entry_price
               /\ t.entry_price < t.target_price
               /\ t.initial_sl <= t.current_sl
               /\ t.initial_risk_per_share = t.entry_price - t.initial_sl)
    /\ [][(Active /\ active_trade' # None /\ ~HasRow(log', "ENTER"))
           => FixedAtEntry(active_trade'[1]) = FixedAtEntry(active_trade[1])]_vars

\* a trade whose stop has been trailed
C34_Witness ==
    /\ call.op = "check_and_manage_trade"
    /\ Active
    /\ HasRow(log, "TSL_UPDATE")
    /\ active_trade[1].current_sl > active_trade[1].initial_sl

----------------------------------------------------------------------------
(* Capital and loss over trading days *)

(* C35: from a positive initial capital, with exit prices that are not
   negative, current_capital is positive in every reachable state, and a
   call that books an exit leaves at least (100 -
   MAX_CAPITAL_ALLOCATION_PERCENT) percent of the capital it found. *)
C35_Solvency ==
    /\ [](current_capital > 0)
    /\ [][HasRow(log', "EXIT")
           => 100 * current_capital'
                >= (100 - MAX_CAPITAL_ALLOCATION_PERCENT) * current_capital]_vars

\* an exit booked at a price of 0: the whole value of the trade is lost
C35_Witness ==
    /\ call.op = "handle_gap_down"
    /\ HasRow(log, "EXIT")
    /\ log[1].price = 0
    /\ log[1].pnl < 0
    /\ current_capital > 0

(* C36: an SL_HIT exit books at least -1R, and exactly -1R when the stop is
   still the initial stop; an exit that books less than -1R is a
   GAP_DOWN_EXIT; and trading is stopped for the day after SL_HIT exits alone
   only when there were at least three of them in the day. *)
C36_LossPerTradeInR ==
    /\ [][\A i \in 1..Len(log') :
            log'[i].action = "EXIT" =>
              /\ log'[i].reason = "SL_HIT" =>
                    /\ RLeq([n |-> -1, d |-> 1], log'[i].risk_r)
                    /\ active_trade[1].current_sl = active_trade[1].initial_sl
                         => log'[i].risk_r = [n |-> -1, d |-> 1]
              /\ RLt(log'[i].risk_r, [n |-> -1, d |-> 1])
                    => log'[i].reason = "GAP_DOWN_EXIT"]_vars
    /\ []((/\ trading_stopped_for_day
            /\ \A i \in 1..Len(exits_today) : exits_today[i] = "SL_HIT")
           => Len(exits_today) >= 3)

\* trading stopped by the third SL_HIT exit of a day
C36_Witness ==
    /\ call.op = "check_and_manage_trade"
    /\ HasRow(log, "EXIT")
    /\ trading_stopped_for_day
    /\ exits_today = <<"SL_HIT", "SL_HIT", "SL_HIT">>

====
